---- MODULE Spec2Model ----
(***************************************************************************)
(* Model of backend/app/main.py: the process-wide Oracle connection pool   *)
(* (startup_db_pool / shutdown_db_pool), the request-scoped lease          *)
(* (get_db_connection, a generator dependency) and the table endpoint      *)
(* (listar_tabela).                                                        *)
(*                                                                         *)
(* Every `await asyncio.to_thread(f)` is a suspension point: the call is   *)
(* queued on the event loop's default thread-pool executor and the         *)
(* coroutine resumes when a worker thread has run f.  A request's pc names *)
(* the to_thread call it is waiting for.  Calls that do not block are      *)
(* taken and finished in one step (guarded by a free worker); the only     *)
(* blocking call is db_pool.acquire on an exhausted pool (getmode is the   *)
(* driver default, wait), which keeps its worker thread until a connection *)
(* is released.                                                            *)
(*                                                                         *)
(* Strings that the code transforms (the path parameter) are sequences of  *)
(* one-character strings, so that str.upper is computed, not assumed.      *)
(***************************************************************************)
EXTENDS Bags, FiniteSets, Integers, Sequences, TLC

\* ------------------------------------------------------------------ bounds
\* requests in flight at once under Spec
MaxReq == 2
\* requests in flight at once under SpecLoad
MaxLoad == 10
\* requests for a whitelisted table in flight at once under SpecLoad
MaxQuery == 1
\* worker threads of the default executor: min(32, cpu_count + 4), >= 5
Workers == 5

\* rows returned by one fetchall
MaxRows == 2

\* pool objects created in one run of the process
MaxPools == 2

\* --------------------------------------------------------- program constants
\* create_pool(min=1, max=5)
PoolMin == 1
PoolMax == 5
\* connection = None
NoConnection == 0

ConnIds == 1..(PoolMax + 1)

\* ------------------------------------------------------------------ strings
LowerCase == <<"a","b","c","d","e","f","g","h","i","j","k","l","m",
               "n","o","p","q","r","s","t","u","v","w","x","y","z">>
UpperCase == <<"A","B","C","D","E","F","G","H","I","J","K","L","M",
               "N","O","P","Q","R","S","T","U","V","W","X","Y","Z">>

\* str.upper on one character
UpperChar(c) ==
    IF \E i \in 1..Len(LowerCase) : LowerCase[i] = c
    THEN UpperCase[CHOOSE i \in 1..Len(LowerCase) : LowerCase[i] = c]
    ELSE c

\* nome_tabela.upper()
upper(s) == [i \in 1..Len(s) |-> UpperChar(s[i])]

GS_CIDADE == <<"G","S","_","C","I","D","A","D","E">>
GS_BAIRRO == <<"G","S","_","B","A","I","R","R","O">>
GS_PREVISAO_TEMPO ==
    <<"G","S","_","P","R","E","V","I","S","A","O","_","T","E","M","P","O">>
GS_FAMILIARES_DESAPARECIDOS ==
    <<"G","S","_","F","A","M","I","L","I","A","R","E","S","_",
      "D","E","S","A","P","A","R","E","C","I","D","O","S">>
GS_NIVEL_ALERTA ==
    <<"G","S","_","N","I","V","E","L","_","A","L","E","R","T","A">>

tabelas_permitidas ==
    <<GS_CIDADE, GS_BAIRRO, GS_PREVISAO_TEMPO, GS_FAMILIARES_DESAPARECIDOS,
      GS_NIVEL_ALERTA>>

\* `x in tabelas_permitidas`
InList(x, list) == \E i \in 1..Len(list) : list[i] = x

\* the path parameters the requests are drawn from
PathNames ==
    { <<"g","s","_","c","i","d","a","d","e">>,
      GS_BAIRRO,
      <<"G","s","_","F","o","o">> }

\* the one path parameter of the load specification
LoadName == <<"G","s","_","F","o","o">>

\* ------------------------------------------------------------- exceptions
MsgUninit == "Database connection pool not initialized."
MsgConnect == "Erro interno ao conectar ao banco de dados"
MsgForbidden == "Tabela nao permitida"
MsgAcesso == "Erro ao acessar dados da tabela"
MsgServidor == "Erro interno no servidor"
MsgDriver == "oracledb.Error"

\* no response decided yet
NoResponse == [status_code |-> 0, msgs |-> <<>>, tabela |-> <<>>]

\* an exception raised by the driver (not an HTTPException)
DriverError == [status_code |-> 0, msgs |-> <<MsgDriver>>, tabela |-> <<>>]

\* the exception raised by the driver call op of a request's query; its
\* text tells which call it came from
DriverErrorIn(op) == [DriverError EXCEPT !.msgs = <<MsgDriver, op>>]

\* HTTPException(status_code, detail): msgs is the detail text, outermost
\* message first; an f-string that interpolates a caught exception nests
\* that exception's text
HTTPException(status, msg, tab, cause) ==
    [status_code |-> status,
     msgs |-> <<msg>> \o cause.msgs,
     tabela |-> IF tab # <<>> THEN tab ELSE cause.tabela]

\* the value the handler returns: 200, `dados`
Ok200 == [status_code |-> 200, msgs |-> <<>>, tabela |-> <<>>]

\* ------------------------------------------------------------------- state
VARIABLES
    startup,    \* startup hook: "pending", "ok" (pool created), "failed"
                \* (error caught and printed), "raised" (error propagated)
    shutdown,   \* shutdown hook: "pending", "closing" (awaiting
                \* to_thread(db_pool.close)), "done", "raised"
    db_pool,    \* the module global: "None" or "pool"
    pool,       \* the driver's pool object behind db_pool
    reqs,       \* bag of the requests in flight
    done        \* the request completed by the step just taken, as the
                \* client saw it; NoRequest after any other step

vars == <<startup, shutdown, db_pool, pool, reqs, done>>

\* no pool object exists
\* created counts the pool objects create_pool has returned, orphans those
\* that db_pool no longer names and that were never closed
NoPool ==
    [state |-> "none", idle |-> {}, busy |-> {}, closed |-> {},
     created |-> 0, orphans |-> 0]

\* oracledb.create_pool(min=1, max=5): min connections are opened
OpenPool ==
    [state |-> "open", idle |-> 1..PoolMin, busy |-> {}, closed |-> {},
     created |-> 1, orphans |-> 0]

\* a request that has just entered get_db_connection
NewRequest(nome) ==
    [pc |-> "acquire", nome_tabela |-> nome, connection |-> NoConnection,
     cursor |-> "none", exc |-> NoResponse, response |-> NoResponse,
     ops |-> <<>>, errs |-> <<>>, sql |-> <<>>, rows |-> <<>>, dados |-> <<>>]

\* value of `done` when the step just taken completed no request
NoRequest ==
    [pc |-> "none", nome_tabela |-> <<>>, connection |-> NoConnection,
     cursor |-> "none", exc |-> NoResponse, response |-> NoResponse,
     ops |-> <<>>, errs |-> <<>>, sql |-> <<>>, rows |-> <<>>, dados |-> <<>>]

InFlight == BagToSet(reqs)

\* the request has made the call op (ops), which raised (errs)
Called(r, op) == [r EXCEPT !.ops = Append(@, op)]

Failed(r, op) == [r EXCEPT !.ops = Append(@, op), !.errs = Append(@, op)]

\* worker threads held by calls blocked in db_pool.acquire
BlockedCount ==
    BagCardinality([r \in {x \in InFlight : x.pc = "blocked"} |-> reqs[r]])

\* asyncio.to_thread can start its call: a worker of the executor is free
WorkerFree == BlockedCount < Workers

\* -------------------------------------------------------- the driver's pool
\* mutant: the pool opens a new connection whenever none is idle, without
\* regard to max
Available_unbounded(p) ==
    IF p.idle # {} THEN p.idle
    ELSE {CHOOSE c \in ConnIds \ (p.idle \cup p.busy \cup p.closed) :
            \A d \in ConnIds \ (p.idle \cup p.busy \cup p.closed) : c <= d}

\* connections db_pool.acquire can hand out now: an idle one, else a new
\* one while fewer than max are open
Available(p) ==
    IF p.idle # {} THEN p.idle
    ELSE IF Cardinality(p.idle \cup p.busy) < PoolMax
         THEN {CHOOSE c \in ConnIds \ (p.idle \cup p.busy \cup p.closed) :
                 \A d \in ConnIds \ (p.idle \cup p.busy \cup p.closed) : c <= d}
         ELSE {}

\* mutant: the connection is handed out but stays in the idle set
pool_acquire_shared(p, c) == [p EXCEPT !.busy = @ \cup {c}]

pool_acquire(p, c) == [p EXCEPT !.idle = @ \ {c}, !.busy = @ \cup {c}]

pool_release(p, c) == [p EXCEPT !.busy = @ \ {c}, !.idle = @ \cup {c}]

\* ConnectionPool.close(force=False): fails while connections are acquired
pool_close(p) ==
    IF p.busy # {}
    THEN [raised |-> TRUE, pool |-> p]
    ELSE [raised |-> FALSE,
          pool |-> [p EXCEPT !.state = "closed", !.idle = {}, !.busy = {},
                              !.closed = p.closed \cup p.idle]]

\* ------------------------------------------------------ get_db_connection
\* except Exception as e: raise HTTPException(500, ...{e})
get_db_connection_except(e) == HTTPException(500, MsgConnect, <<>>, e)

\* mutant: the release follows the yield without a finally, so it runs only
\* when the endpoint returned
get_db_connection_finally_success_only(r) ==
    IF r.connection # NoConnection /\ r.response.status_code = 200
    THEN [r EXCEPT !.pc = "release"]
    ELSE [r EXCEPT !.pc = "done"]

\* mutant: the finally releases without testing `if connection`
get_db_connection_finally_unguarded(r) == [r EXCEPT !.pc = "release"]

\* finally: if connection: await asyncio.to_thread(connection.release)
get_db_connection_finally(r) ==
    IF r.connection # NoConnection
    THEN [r EXCEPT !.pc = "release"]
    ELSE [r EXCEPT !.pc = "done"]

\* an exception e reaches the try block of get_db_connection: raised by the
\* code before the yield, or thrown into the generator at the yield when
\* the endpoint raised
Thrown(r, e) ==
    get_db_connection_finally(
        [r EXCEPT !.response = get_db_connection_except(e)])

\* the endpoint returned: the generator is resumed after the yield
Returned(r) == get_db_connection_finally([r EXCEPT !.response = Ok200])

\* ----------------------------------------------------------- listar_tabela
Allowed(nome) == InList(upper(nome), tabelas_permitidas)

\* except Exception as e (outer): raise HTTPException(500, ...{e})
listar_tabela_except(e) == HTTPException(500, MsgServidor, <<>>, e)

\* the endpoint raises e inside its outer try block
RaisedInTry(r, e) == Thrown(r, listar_tabela_except(e))

\* mutant: the endpoint goes on without the whitelist test
listar_tabela_enter_unchecked(r) == [r EXCEPT !.pc = "cursor"]

\* the endpoint starts with the yielded connection and runs to its first
\* await: the whitelist check, then the request for a cursor
listar_tabela_enter(r) ==
    IF ~Allowed(r.nome_tabela)
    THEN Thrown(r, HTTPException(403, MsgForbidden, <<>>, NoResponse))
    ELSE [r EXCEPT !.pc = "cursor"]

\* mutant: the inner except clause releases the connection itself before it
\* raises, and the dependency releases it again
listar_tabela_query_failed_releases(r) ==
    RaisedInTry(Called(r, "release"),
                HTTPException(400, MsgAcesso, upper(r.nome_tabela), r.exc))

\* the inner except clause, after its cursor.close: raise HTTPException(400)
\* from inside the outer try block
listar_tabela_query_failed(r) ==
    RaisedInTry(r, HTTPException(400, MsgAcesso, upper(r.nome_tabela), r.exc))

\* ------------------------------------------------------------- bookkeeping
\* request r becomes r2; a request whose dependency has exited leaves
Step(r, r2) ==
    IF r2.pc = "done"
    THEN /\ reqs' = reqs (-) SetToBag({r})
         /\ done' = r2
    ELSE /\ reqs' = (reqs (-) SetToBag({r})) (+) SetToBag({r2})
         /\ done' = NoRequest

\* ------------------------------------------------------- startup_db_pool
Digits == {"0","1","2","3","4","5","6","7","8","9"}

\* os.getenv("ORACLE_PORT"): unset (None) or a string
PortValues ==
    { [isset |-> FALSE, val |-> <<>>],
      [isset |-> TRUE, val |-> <<>>],
      [isset |-> TRUE, val |-> <<"1","5","2","1">>],
      [isset |-> TRUE, val |-> <<"1","5","2","1","x">>] }

\* int(os.getenv("ORACLE_PORT")) returns: raises TypeError on None and
\* ValueError on a string that is not a number
IntParses(v) ==
    /\ v.isset
    /\ Len(v.val) > 0
    /\ \A i \in 1..Len(v.val) : v.val[i] \in Digits

\* mutant: db_pool is bound to a pool object before the failing call
startup_try_partial(port, createOk) ==
    IF IntParses(port) /\ createOk
    THEN [outcome |-> "ok", db_pool |-> "pool", pool |-> OpenPool]
    ELSE [outcome |-> "failed", db_pool |-> "pool", pool |-> NoPool]

\* the try block of startup_db_pool: db_pool is assigned only when makedsn
\* and create_pool have returned
startup_try(port, createOk) ==
    IF IntParses(port) /\ createOk
    THEN [outcome |-> "ok", db_pool |-> "pool", pool |-> OpenPool]
    ELSE [outcome |-> "failed", db_pool |-> "None", pool |-> NoPool]

startup_db_pool ==
    /\ startup = "pending"
    /\ \E port \in PortValues, createOk \in BOOLEAN :
         LET res == startup_try(port, createOk) IN
           /\ startup' = res.outcome
           /\ db_pool' = res.db_pool
           /\ pool' = res.pool
    /\ done' = NoRequest
    /\ UNCHANGED <<shutdown, reqs>>

\* startup_db_pool runs again after it has returned once (the application's
\* lifespan is started again): the hook has no test of db_pool, so a pool
\* that create_pool returns is assigned over the one db_pool named
startup_db_pool_again ==
    /\ startup \in {"ok", "failed"}
    /\ shutdown \in {"pending", "done", "raised"}
    /\ reqs = EmptyBag
    /\ pool.created < MaxPools
    /\ \E port \in PortValues, createOk \in BOOLEAN :
         LET res == startup_try(port, createOk) IN
           IF res.outcome = "ok"
           THEN /\ startup' = "ok"
                /\ db_pool' = res.db_pool
                /\ pool' = [res.pool EXCEPT
                              !.created = pool.created + 1,
                              !.orphans = pool.orphans
                                + (IF pool.state = "open" THEN 1 ELSE 0)]
           ELSE /\ startup' = IF db_pool = "None" THEN "failed" ELSE startup
                /\ UNCHANGED <<db_pool, pool>>
    /\ shutdown' = "pending"
    /\ done' = NoRequest
    /\ UNCHANGED reqs

\* ------------------------------------------------------ shutdown_db_pool
\* `if db_pool:` then the suspension at await asyncio.to_thread(...)
shutdown_db_pool ==
    /\ startup \in {"ok", "failed"}
    /\ shutdown = "pending"
    /\ shutdown' = IF db_pool # "None" THEN "closing" ELSE "done"
    /\ done' = NoRequest
    /\ UNCHANGED <<startup, db_pool, pool, reqs>>

\* db_pool.close runs on a worker thread; its exception leaves the hook
shutdown_close ==
    /\ shutdown = "closing"
    /\ WorkerFree
    /\ LET res == pool_close(pool) IN
         /\ pool' = res.pool
         /\ shutdown' = IF res.raised THEN "raised" ELSE "done"
    /\ done' = NoRequest
    /\ UNCHANGED <<startup, db_pool, reqs>>

\* --------------------------------------------------------------- requests
\* the server takes requests once the startup hook has returned and until
\* the shutdown hook has ended
Serving == startup \in {"ok", "failed"} /\ shutdown \in {"pending", "closing"}

\* a request arrives and get_db_connection runs to its first await
Arrive(nome, limit) ==
    /\ Serving
    /\ BagCardinality(reqs) < limit
    /\ IF db_pool = "None"
       THEN /\ done' = [Thrown(NewRequest(nome),
                               HTTPException(500, MsgUninit, <<>>, NoResponse))
                        EXCEPT !.pc = "done"]
            /\ UNCHANGED reqs
       ELSE /\ reqs' = reqs (+) SetToBag({NewRequest(nome)})
            /\ done' = NoRequest
    /\ UNCHANGED <<startup, shutdown, db_pool, pool>>

\* db_pool.acquire returns connection c; the generator yields it and the
\* endpoint runs to its first await
AcquireOk(r) ==
    /\ r.pc = "acquire"
    /\ WorkerFree
    /\ pool.state = "open"
    /\ \E c \in Available(pool) :
         /\ pool' = pool_acquire(pool, c)
         /\ Step(r, listar_tabela_enter(
                      [Called(r, "acquire") EXCEPT !.connection = c]))
    /\ UNCHANGED <<startup, shutdown, db_pool>>

\* db_pool.acquire raises: the pool is closed, or the database cannot be
\* reached
AcquireRaise(r) ==
    /\ \/ r.pc = "acquire" /\ WorkerFree
       \/ r.pc = "blocked" /\ pool.state = "closed"
    /\ Step(r, Thrown(IF r.pc = "acquire"
                      THEN Failed(r, "acquire")
                      ELSE [r EXCEPT !.errs = Append(@, "acquire")],
                      DriverError))
    /\ UNCHANGED <<startup, shutdown, db_pool, pool>>

\* db_pool.acquire finds every connection leased and max reached: the call
\* waits on its worker thread
AcquireBlock(r) ==
    /\ r.pc = "acquire"
    /\ WorkerFree
    /\ pool.state = "open"
    /\ Available(pool) = {}
    /\ Step(r, [Called(r, "acquire") EXCEPT !.pc = "blocked"])
    /\ UNCHANGED <<startup, shutdown, db_pool, pool>>

\* a waiting db_pool.acquire gets a released connection
AcquireResume(r) ==
    /\ r.pc = "blocked"
    /\ pool.state = "open"
    /\ \E c \in Available(pool) :
         /\ pool' = pool_acquire(pool, c)
         /\ Step(r, listar_tabela_enter([r EXCEPT !.connection = c]))
    /\ UNCHANGED <<startup, shutdown, db_pool>>

\* cursor = await asyncio.to_thread(connection.cursor)
CursorOk(r) ==
    /\ r.pc = "cursor"
    /\ WorkerFree
    /\ Step(r, [Called(r, "cursor") EXCEPT !.cursor = "open", !.pc = "execute"])
    /\ UNCHANGED <<startup, shutdown, db_pool, pool>>

\* connection.cursor raises: caught by the outer except clause
CursorRaise(r) ==
    /\ r.pc = "cursor"
    /\ WorkerFree
    /\ Step(r, RaisedInTry(Failed(r, "cursor"), DriverErrorIn("cursor")))
    /\ UNCHANGED <<startup, shutdown, db_pool, pool>>

\* the text of f"SELECT * FROM {nome_tabela}", nome_tabela upper-cased
SelectFrom(r) ==
    <<"S","E","L","E","C","T"," ","*"," ","F","R","O","M"," ">>
      \o upper(r.nome_tabela)

\* await asyncio.to_thread(cursor.execute, f"SELECT * FROM {nome_tabela}")
ExecuteOk(r) ==
    /\ r.pc = "execute"
    /\ WorkerFree
    /\ Step(r, [Called(r, "execute") EXCEPT !.sql = SelectFrom(r),
                                           !.pc = "description"])
    /\ UNCHANGED <<startup, shutdown, db_pool, pool>>

\* mutant: the inner except clause raises without closing the cursor
InnerExcept_noclose(r, e) ==
    [r EXCEPT !.exc = e,
              !.pc = "release",
              !.response =
                  get_db_connection_except(listar_tabela_except(
                      HTTPException(400, MsgAcesso, upper(r.nome_tabela), e)))]

\* an exception inside the inner try block: the inner except clause runs to
\* its await of cursor.close (`if cursor:` holds for a cursor object)
InnerExcept(r, e) == [r EXCEPT !.exc = e, !.pc = "errclose"]

ExecuteRaise(r) ==
    /\ r.pc = "execute"
    /\ WorkerFree
    /\ Step(r, InnerExcept([Failed(r, "execute") EXCEPT !.sql = SelectFrom(r)],
                           DriverErrorIn("execute")))
    /\ UNCHANGED <<startup, shutdown, db_pool, pool>>

\* colunas_desc = await asyncio.to_thread(lambda: cursor.description)
Description(r) ==
    /\ r.pc = "description"
    /\ WorkerFree
    /\ Step(r, [Called(r, "description") EXCEPT !.pc = "fetchall"])
    /\ UNCHANGED <<startup, shutdown, db_pool, pool>>

\* rows = await asyncio.to_thread(cursor.fetchall), then the projection
FetchallOk(r) ==
    /\ r.pc = "fetchall"
    /\ WorkerFree
    /\ Step(r, [Called(r, "fetchall") EXCEPT !.pc = "close"])
    /\ UNCHANGED <<startup, shutdown, db_pool, pool>>

FetchallRaise(r) ==
    /\ r.pc = "fetchall"
    /\ WorkerFree
    /\ Step(r, InnerExcept(Failed(r, "fetchall"), DriverErrorIn("fetchall")))
    /\ UNCHANGED <<startup, shutdown, db_pool, pool>>

\* await asyncio.to_thread(cursor.close); return dados
CloseOk(r) ==
    /\ r.pc = "close"
    /\ WorkerFree
    /\ Step(r, Returned([Called(r, "close") EXCEPT !.cursor = "closed"]))
    /\ UNCHANGED <<startup, shutdown, db_pool, pool>>

\* cursor.close raises inside the inner try block
CloseRaise(r) ==
    /\ r.pc = "close"
    /\ WorkerFree
    /\ Step(r, InnerExcept(Failed(r, "close"), DriverErrorIn("close")))
    /\ UNCHANGED <<startup, shutdown, db_pool, pool>>

\* the inner except clause: cursor.close, then raise HTTPException(400)
ErrCloseOk(r) ==
    /\ r.pc = "errclose"
    /\ WorkerFree
    /\ Step(r, listar_tabela_query_failed(
                 [Called(r, "close") EXCEPT !.cursor = "closed"]))
    /\ UNCHANGED <<startup, shutdown, db_pool, pool>>

\* the close of the inner except clause raises: printed and dropped
ErrCloseRaise(r) ==
    /\ r.pc = "errclose"
    /\ WorkerFree
    /\ Step(r, listar_tabela_query_failed(Failed(r, "close")))
    /\ UNCHANGED <<startup, shutdown, db_pool, pool>>

\* ------------------------------------------------------- row projection
\* Column values.  kind is the Python type of the value; a LOB handle is the
\* only kind with a read method, and carries what its read does: result is
\* "str" or "bytes" (read returns data as that type) or "raise".
None == [kind |-> "null", data |-> <<>>, result |-> "none"]

Number(n) == [kind |-> "int", data |-> <<n>>, result |-> "none"]

\* a str value: data is its sequence of code points
Str(text) == [kind |-> "str", data |-> text, result |-> "none"]

\* a bytes value: data is its sequence of bytes
Bytes(b) == [kind |-> "bytes", data |-> b, result |-> "none"]

Lob(result, data) == [kind |-> "lob", data |-> data, result |-> result]

\* hasattr(val, "read")
HasRead(val) == val.kind = "lob"

\* bytes.decode('utf-8'): ok is FALSE where Python raises UnicodeDecodeError
RECURSIVE utf8_decode(_)
utf8_decode(b) ==
    IF b = <<>> THEN [ok |-> TRUE, text |-> <<>>]
    ELSE
      LET b1 == b[1]
          n == IF b1 < 128 THEN 1
               ELSE IF b1 \in 194..223 THEN 2
               ELSE IF b1 \in 224..239 THEN 3
               ELSE IF b1 \in 240..244 THEN 4
               ELSE 0
          \* the range of the second byte excludes overlong forms,
          \* surrogates and code points above U+10FFFF
          second == IF b1 = 224 THEN 160..191
                    ELSE IF b1 = 237 THEN 128..159
                    ELSE IF b1 = 240 THEN 144..191
                    ELSE IF b1 = 244 THEN 128..143
                    ELSE 128..191
          wellformed ==
              /\ n > 0
              /\ Len(b) >= n
              /\ n >= 2 => b[2] \in second
              /\ \A i \in 3..n : b[i] \in 128..191
          cp == IF n = 1 THEN b1
                ELSE IF n = 2 THEN (b1 - 192) * 64 + (b[2] - 128)
                ELSE IF n = 3 THEN (b1 - 224) * 4096 + (b[2] - 128) * 64
                                     + (b[3] - 128)
                ELSE (b1 - 240) * 262144 + (b[2] - 128) * 4096
                       + (b[3] - 128) * 64 + (b[4] - 128)
      IN  IF ~wellformed THEN [ok |-> FALSE, text |-> <<>>]
          ELSE LET rest == utf8_decode(SubSeq(b, n + 1, Len(b)))
               IN  [ok |-> rest.ok,
                    text |-> IF rest.ok THEN <<cp>> \o rest.text ELSE <<>>]

\* mutant: bytes that do not decode are dropped
ProjectValue_strict(val) ==
    IF val # None /\ HasRead(val)
    THEN IF val.result = "raise" THEN None
         ELSE IF val.result = "bytes"
              THEN LET d == utf8_decode(val.data)
                   IN  IF d.ok THEN Str(d.text) ELSE None
              ELSE Str(val.data)
    ELSE val

\* the value stored in linha[col] for the column value val
ProjectValue(val) ==
    IF val # None /\ HasRead(val)
    THEN IF val.result = "raise" THEN None
         ELSE IF val.result = "bytes"
              THEN LET d == utf8_decode(val.data)
                   IN  IF d.ok THEN Str(d.text) ELSE Bytes(val.data)
              ELSE Str(val.data)
    ELSE val

\* colunas = [col[0] for col in colunas_desc]
colunas == <<"ID", "DADOS">>

\* for col, val in zip(colunas, row): linha[col] = val
linha(row) ==
    LET k == IF Len(row) < Len(colunas) THEN Len(row) ELSE Len(colunas)
    IN  [col \in {colunas[i] : i \in 1..k} |->
           ProjectValue(row[CHOOSE i \in 1..k : colunas[i] = col])]

\* the column values of row whose read is called, in column order
Reads(row) == SelectSeq(row, LAMBDA val : val # None /\ HasRead(val))

\* rows = await asyncio.to_thread(cursor.fetchall), with rows returned
FetchallRows(r, lists) ==
    /\ r.pc = "fetchall"
    /\ WorkerFree
    /\ \E rows \in lists :
         Step(r, [Called(r, "fetchall") EXCEPT
                    !.rows = rows,
                    !.pc = IF rows = <<>> THEN "close" ELSE "project"])
    /\ UNCHANGED <<startup, shutdown, db_pool, pool>>

\* mutant: a read that raises ends the query with the inner except clause
ProjectRow_abort(r) ==
    /\ r.pc = "project"
    /\ LET row == r.rows[Len(r.dados) + 1]
           reads == Reads(row)
           failed == SelectSeq(reads, LAMBDA val : val.result = "raise")
           r2 == [r EXCEPT
                    !.ops = @ \o [i \in 1..Len(reads) |-> "read"],
                    !.errs = @ \o [i \in 1..Len(failed) |-> "read"]]
       IN  /\ reads # <<>> => WorkerFree
           /\ Step(r, IF failed # <<>> THEN InnerExcept(r2, DriverError)
                      ELSE [r2 EXCEPT
                              !.dados = Append(@, linha(row)),
                              !.pc = IF Len(r.dados) + 1 = Len(r.rows)
                                     THEN "close" ELSE "project"])
    /\ UNCHANGED <<startup, shutdown, db_pool, pool>>

\* one turn of `for row in rows`: the LOB values of the row are read, the
\* record is built and appended to dados
ProjectRow(r) ==
    /\ r.pc = "project"
    /\ LET row == r.rows[Len(r.dados) + 1]
           reads == Reads(row)
           failed == SelectSeq(reads, LAMBDA val : val.result = "raise")
       IN  /\ reads # <<>> => WorkerFree
           /\ Step(r, [r EXCEPT
                         !.ops = @ \o [i \in 1..Len(reads) |-> "read"],
                         !.errs = @ \o [i \in 1..Len(failed) |-> "read"],
                         !.dados = Append(@, linha(row)),
                         !.pc = IF Len(r.dados) + 1 = Len(r.rows)
                                THEN "close" ELSE "project"])
    /\ UNCHANGED <<startup, shutdown, db_pool, pool>>

\* mutant: the connection goes back to the pool while the cursor is still
\* to be closed
Release_early(r) ==
    /\ r.pc \in {"close", "release"}
    /\ \A i \in 1..Len(r.ops) : r.ops[i] # "release"
    /\ WorkerFree
    /\ pool' = pool_release(pool, r.connection)
    /\ Step(r, [Called(r, "release") EXCEPT
                  !.pc = IF r.pc = "close" THEN "close" ELSE "done"])
    /\ UNCHANGED <<startup, shutdown, db_pool>>

\* finally: await asyncio.to_thread(connection.release); the response goes
\* to the client
Release(r) ==
    /\ r.pc = "release"
    /\ WorkerFree
    /\ pool' = pool_release(pool, r.connection)
    /\ Step(r, [Called(r, "release") EXCEPT !.pc = "done"])
    /\ UNCHANGED <<startup, shutdown, db_pool>>

\* ------------------------------------------------------------ specifications
Init ==
    /\ startup = "pending"
    /\ shutdown = "pending"
    /\ db_pool = "None"
    /\ pool = NoPool
    /\ reqs = EmptyBag
    /\ done = NoRequest

\* With at most MaxReq (< PoolMax) requests in flight db_pool.acquire never
\* finds the pool exhausted, so the two waiting steps are left to SpecLoad.
Next ==
    \/ startup_db_pool
    \/ shutdown_db_pool
    \/ shutdown_close
    \/ \E nome \in PathNames : Arrive(nome, MaxReq)
    \/ \E r \in InFlight : AcquireOk(r)
    \/ \E r \in InFlight : AcquireRaise(r)
    \/ \E r \in InFlight : CursorOk(r)
    \/ \E r \in InFlight : CursorRaise(r)
    \/ \E r \in InFlight : ExecuteOk(r)
    \/ \E r \in InFlight : ExecuteRaise(r)
    \/ \E r \in InFlight : Description(r)
    \/ \E r \in InFlight : FetchallOk(r)
    \/ \E r \in InFlight : FetchallRaise(r)
    \/ \E r \in InFlight : CloseOk(r)
    \/ \E r \in InFlight : CloseRaise(r)
    \/ \E r \in InFlight : ErrCloseOk(r)
    \/ \E r \in InFlight : ErrCloseRaise(r)
    \/ \E r \in InFlight : Release(r)

Spec == Init /\ [][Next]_vars

\* The server under load: the pool was created and no driver call fails.
\* Most requests name a table outside the whitelist: such a request leases
\* a connection, is refused by the endpoint and has only the release left
\* to run.  At most MaxQuery requests at a time run a query.
InitLoad ==
    /\ startup = "ok"
    /\ shutdown = "pending"
    /\ db_pool = "pool"
    /\ pool = OpenPool
    /\ reqs = EmptyBag
    /\ done = NoRequest

\* requests in flight that name a whitelisted table
QueryCount ==
    BagCardinality([r \in {x \in InFlight : Allowed(x.nome_tabela)} |-> reqs[r]])

ArriveRefused == Arrive(LoadName, MaxLoad)

ArriveQuery == QueryCount < MaxQuery /\ Arrive(GS_BAIRRO, MaxLoad)

\* the steps of the requests in flight under load
LoadStep ==
    \/ \E r \in InFlight : AcquireOk(r)
    \/ \E r \in InFlight : AcquireBlock(r)
    \/ \E r \in InFlight : AcquireResume(r)
    \/ \E r \in InFlight : CursorOk(r)
    \/ \E r \in InFlight : ExecuteOk(r)
    \/ \E r \in InFlight : Description(r)
    \/ \E r \in InFlight : FetchallOk(r)
    \/ \E r \in InFlight : CloseOk(r)
    \/ \E r \in InFlight : Release(r)

NextLoad ==
    \/ ArriveRefused
    \/ ArriveQuery
    \/ LoadStep

SpecLoad == InitLoad /\ [][NextLoad]_vars

\* Requests for a whitelisted table against a working pool, any driver call
\* of the query failing; a fetchall that returns rows returns one row, whose
\* first column is a CLOB that reads and whose second is a LOB whose read
\* raises.
SampleRows == {<< <<Lob("str", <<79, 75>>), Lob("raise", <<>>)>> >>}

NextReads ==
    \/ Arrive(GS_BAIRRO, MaxReq)
    \/ \E r \in InFlight : AcquireOk(r)
    \/ \E r \in InFlight : CursorOk(r)
    \/ \E r \in InFlight : CursorRaise(r)
    \/ \E r \in InFlight : ExecuteOk(r)
    \/ \E r \in InFlight : ExecuteRaise(r)
    \/ \E r \in InFlight : Description(r)
    \/ \E r \in InFlight : FetchallOk(r)
    \/ \E r \in InFlight : FetchallRaise(r)
    \/ \E r \in InFlight : FetchallRows(r, SampleRows)
    \/ \E r \in InFlight : ProjectRow(r)
    \/ \E r \in InFlight : CloseOk(r)
    \/ \E r \in InFlight : CloseRaise(r)
    \/ \E r \in InFlight : ErrCloseOk(r)
    \/ \E r \in InFlight : ErrCloseRaise(r)
    \/ \E r \in InFlight : Release(r)

SpecReads == InitLoad /\ [][NextReads]_vars

\* One request for a whitelisted table against a working pool, no driver
\* call failing except LOB reads: fetchall returns up to MaxRows rows of
\* two columns drawn from the values below.
Texts == {<<67, 233>>, <<8364>>}

\* the UTF-8 encodings of Texts, and byte strings that are not UTF-8: a
\* byte that never occurs, a truncated sequence, an encoded surrogate
Blobs ==
    {<<67, 195, 169>>, <<226, 130, 172>>,
     <<67, 255>>, <<226, 130>>, <<237, 160, 128>>}

FirstValues == {None, Number(7), Lob("str", <<79, 75>>)}

SecondValues ==
    {None, Number(7), Bytes(<<255>>), Lob("raise", <<>>)}
      \cup {Lob("str", t) : t \in Texts}
      \cup {Lob("bytes", b) : b \in Blobs}

RowLists ==
    UNION {[1..k -> {<<a, b>> : a \in FirstValues, b \in SecondValues}]
             : k \in 0..MaxRows}

NextRow ==
    \/ Arrive(GS_BAIRRO, 1)
    \/ \E r \in InFlight : AcquireOk(r)
    \/ \E r \in InFlight : CursorOk(r)
    \/ \E r \in InFlight : ExecuteOk(r)
    \/ \E r \in InFlight : Description(r)
    \/ \E r \in InFlight : FetchallRows(r, RowLists)
    \/ \E r \in InFlight : ProjectRow(r)
    \/ \E r \in InFlight : CloseOk(r)
    \/ \E r \in InFlight : Release(r)

SpecRow == InitLoad /\ [][NextRow]_vars

\* The process with its startup hook run more than once; no driver call of
\* a request fails.
NextReinit ==
    \/ startup_db_pool
    \/ startup_db_pool_again
    \/ shutdown_db_pool
    \/ shutdown_close
    \/ Arrive(GS_BAIRRO, MaxReq)
    \/ \E r \in InFlight : AcquireOk(r)
    \/ \E r \in InFlight : CursorOk(r)
    \/ \E r \in InFlight : ExecuteOk(r)
    \/ \E r \in InFlight : Description(r)
    \/ \E r \in InFlight : FetchallOk(r)
    \/ \E r \in InFlight : CloseOk(r)
    \/ \E r \in InFlight : Release(r)

SpecReinit == Init /\ [][NextReinit]_vars

\* ------------------------------------------------------------ properties
\* how many times op occurs in a request's sequence of calls
Count(seq, op) == Cardinality({i \in 1..Len(seq) : seq[i] = op})

Has(seq, op) == \E i \in 1..Len(seq) : seq[i] = op

\* the requests in flight and the one just completed
Seen == InFlight \cup (IF done.pc = "done" THEN {done} ELSE {})

\* the requests in flight that hold a connection
Holders == {r \in InFlight : r.connection # NoConnection}

\* C1: a request that obtained a connection has released it exactly once,
\* as its last call, when it completes, whatever the exit path; no request
\* releases twice; and the pool's leased connections are exactly those of
\* the requests still in flight, so none stays leased after its request.
C1_LeaseInvariant ==
    /\ \A r \in Seen : Count(r.ops, "release") <= 1
    /\ (done.pc = "done" /\ done.connection # NoConnection)
         => /\ Count(done.ops, "release") = 1
            /\ done.ops[Len(done.ops)] = "release"
    /\ pool.busy = {r.connection : r \in Holders}

\* C1 witness: a request whose fetch failed completed with its release done
C1_Witness ==
    /\ done.pc = "done"
    /\ Has(done.errs, "fetchall")
    /\ done.connection # NoConnection
    /\ Count(done.ops, "release") = 1

\* C2 (as claimed): a request for a table outside the whitelist never calls
\* db_pool.acquire and ends with 403.
C2_ForbiddenWithoutAcquire ==
    \A r \in Seen :
        ~Allowed(r.nome_tabela)
          => /\ ~Has(r.ops, "acquire")
             /\ r.pc = "done" => r.response.status_code = 403

\* C3 (as claimed): with a connection and a cursor obtained, a failure of
\* cursor.execute or cursor.fetchall gives the client 400 with a message
\* that names the table.
C3_QueryFailed400 ==
    (/\ done.pc = "done"
     /\ Allowed(done.nome_tabela)
     /\ done.connection # NoConnection
     /\ Has(done.ops, "cursor") /\ ~Has(done.errs, "cursor")
     /\ Has(done.errs, "execute") \/ Has(done.errs, "fetchall"))
      => /\ done.response.status_code = 400
         /\ Has(done.response.msgs, MsgAcesso)
         /\ done.response.tabela = upper(done.nome_tabela)

\* C4 (as claimed): whenever a request waits in db_pool.acquire, some
\* request in flight can still take a step, so the wait can end.
C4_NoAcquireDeadlock ==
    (\E r \in InFlight : r.pc = "blocked") => ENABLED LoadStep

\* C5 (as claimed): a request for a whitelisted table has attempted
\* db_pool.acquire exactly once and released exactly once when it completes.
C5_OneAcquireOneRelease ==
    (done.pc = "done" /\ Allowed(done.nome_tabela))
      => /\ Count(done.ops, "acquire") = 1
         /\ Count(done.ops, "release") = 1

\* C5 (amended): a request for a whitelisted table attempts no acquire when
\* db_pool is None and exactly one otherwise; it releases exactly once when
\* that acquire returned a connection and not at all when it did not.
C5_AcquireOnceReleaseIfLeased ==
    (done.pc = "done" /\ Allowed(done.nome_tabela))
      => /\ Count(done.ops, "acquire") = (IF db_pool = "None" THEN 0 ELSE 1)
         /\ Count(done.ops, "release") =
              (IF done.connection # NoConnection THEN 1 ELSE 0)
         /\ done.connection # NoConnection
              <=> (Has(done.ops, "acquire") /\ ~Has(done.errs, "acquire"))

\* C5 witness: a whitelisted request whose query failed completed after one
\* acquire and one release
C5_Witness ==
    /\ done.pc = "done"
    /\ Allowed(done.nome_tabela)
    /\ Has(done.errs, "execute")
    /\ Count(done.ops, "acquire") = 1
    /\ Count(done.ops, "release") = 1

\* C6: a connection is idle in the pool or leased to exactly one request in
\* flight, never both and never to two requests.
C6_ExclusiveLease ==
    /\ pool.idle \cap pool.busy = {}
    /\ \A r \in Holders : reqs[r] = 1 /\ r.connection \in pool.busy
    /\ \A r1, r2 \in Holders : r1 # r2 => r1.connection # r2.connection
    /\ \A c \in pool.busy : \E r \in Holders : r.connection = c

\* C6 witness: two requests in flight hold a connection each
C6_Witness ==
    \E r1, r2 \in Holders : r1 # r2 /\ r1.pc = "execute" /\ r2.pc = "release"

\* C7: after a failed startup the hook has returned normally, db_pool is
\* None, no pool object exists, and every request is answered at once with
\* the 500 of the uninitialised pool, without any driver call.
C7_StartupFailure ==
    /\ startup # "raised"
    /\ startup = "failed"
         => /\ db_pool = "None"
            /\ pool = NoPool
            /\ InFlight = {}
            /\ done.pc = "done"
                 => /\ done.response.status_code = 500
                    /\ Has(done.response.msgs, MsgUninit)
                    /\ done.ops = <<>>

\* C7 witness: a request was answered after a failed startup
C7_Witness == startup = "failed" /\ done.pc = "done"

\* C8 (as claimed): a request for a table outside the whitelist receives
\* 403 whatever the state of the pool.
C8_ForbiddenAlways403 ==
    (done.pc = "done" /\ ~Allowed(done.nome_tabela))
      => done.response.status_code = 403

\* C9: when db_pool.acquire raises, the request receives 500 and has made
\* no other call: no cursor, no query, no release.
C9_AcquireRaises ==
    (done.pc = "done" /\ Has(done.errs, "acquire"))
      => /\ done.response.status_code = 500
         /\ done.connection = NoConnection
         /\ done.ops = <<"acquire">>

\* C9 witness: a request whose acquire raised has completed
C9_Witness ==
    done.pc = "done" /\ Has(done.errs, "acquire") /\ db_pool = "pool"

\* C10 (as claimed): the shutdown hook never raises, and once it has ended
\* every connection of the pool is closed.
C10_ShutdownSafe ==
    /\ shutdown # "raised"
    /\ shutdown = "done" => pool.idle \cup pool.busy = {}

\* C11 (as claimed): db_pool.acquire is called only while the pool is in
\* service: never before the startup hook has returned, and never once the
\* shutdown hook has begun.
C11_AcquireOnlyInService ==
    [][\A r \in InFlight :
         (r.pc = "acquire" /\ (AcquireOk(r) \/ AcquireRaise(r)))
           => (startup = "ok" /\ shutdown = "pending")]_vars

\* the number of requests in flight that hold a connection
HolderCount == BagCardinality([r \in Holders |-> reqs[r]])

\* C12: the connections of the pool, idle or leased, number between 0 and
\* max (5), and at most 5 requests hold a connection at the same time.
C12_PoolBounded ==
    /\ Cardinality(pool.idle \cup pool.busy) \in 0..5
    /\ HolderCount <= 5
    /\ HolderCount = Cardinality(pool.busy)

\* C12 witness: all 5 connections are leased while another request waits in
\* db_pool.acquire
C12_Witness ==
    /\ Cardinality(pool.busy) = 5
    /\ HolderCount = 5
    /\ \E r \in InFlight : r.pc = "blocked"

\* C13: a cursor is created and a statement executed only for a request
\* whose upper-cased name is one of the five whitelisted tables, and the
\* statement is exactly SELECT * FROM followed by that upper-cased name.
C13_OnlyWhitelistedQueries ==
    \A r \in Seen :
        /\ (Has(r.ops, "cursor") \/ Has(r.ops, "execute"))
             => upper(r.nome_tabela) \in
                  {GS_CIDADE, GS_BAIRRO, GS_PREVISAO_TEMPO,
                   GS_FAMILIARES_DESAPARECIDOS, GS_NIVEL_ALERTA}
        /\ Has(r.ops, "execute")
             => r.sql = <<"S","E","L","E","C","T"," ","*"," ",
                          "F","R","O","M"," ">> \o upper(r.nome_tabela)
        /\ ~Has(r.ops, "execute") => r.sql = <<>>

\* C13 witness: the request for gs_cidade has executed
\* SELECT * FROM GS_CIDADE
C13_Witness ==
    \E r \in Seen :
        /\ r.nome_tabela = <<"g","s","_","c","i","d","a","d","e">>
        /\ r.sql = <<"S","E","L","E","C","T"," ","*"," ","F","R","O","M"," ",
                     "G","S","_","C","I","D","A","D","E">>

\* the UTF-8 encoding of a sequence of code points
RECURSIVE Utf8Encode(_)
Utf8Encode(text) ==
    IF text = <<>> THEN <<>>
    ELSE LET cp == text[1]
             head == IF cp < 128 THEN <<cp>>
                     ELSE IF cp < 2048
                          THEN <<192 + (cp \div 64), 128 + (cp % 64)>>
                     ELSE IF cp < 65536
                          THEN <<224 + (cp \div 4096), 128 + ((cp \div 64) % 64),
                                 128 + (cp % 64)>>
                     ELSE <<240 + (cp \div 262144), 128 + ((cp \div 4096) % 64),
                            128 + ((cp \div 64) % 64), 128 + (cp % 64)>>
         IN  head \o Utf8Encode(Tail(text))

\* the value projected for column c of the i-th row of request r
Projected(r, i, c) == r.dados[i][colunas[c]]

\* C14: in every record built so far, a null projects to null; a LOB whose
\* read returns text projects to that text; a LOB whose read returns the
\* UTF-8 encoding of a text projects to the text; a LOB whose read returns
\* bytes that are not UTF-8 projects to those bytes, not to null, and counts
\* as no error; a value without a read method is stored unchanged.
C14_RowProjection ==
    \A r \in Seen : \A i \in 1..Len(r.dados) : \A c \in 1..Len(colunas) :
        LET val == r.rows[i][c]
            out == Projected(r, i, c)
        IN  /\ val = None => out = None
            /\ val.kind # "lob" => out = val
            /\ (val.kind = "lob" /\ val.result = "str") => out = Str(val.data)
            /\ (val.kind = "lob" /\ val.result = "bytes")
                 => /\ \A t \in Texts : val.data = Utf8Encode(t) => out = Str(t)
                    /\ (\A t \in Texts : val.data # Utf8Encode(t))
                         => /\ out = Bytes(val.data)
                            /\ out # None
                            /\ r.pc \in {"project", "close", "release", "done"}
                            /\ r.exc = NoResponse
                            /\ r.pc = "done" => r.response = Ok200

\* C14 witness: a completed request projected the bytes of an e-acute text
\* to the text and kept bytes that are not UTF-8
C14_Witness ==
    /\ done.pc = "done"
    /\ Len(done.dados) = 2
    /\ done.rows[1][2] = Lob("bytes", <<67, 195, 169>>)
    /\ done.dados[1]["DADOS"] = Str(<<67, 233>>)
    /\ done.rows[2][2] = Lob("bytes", <<67, 255>>)
    /\ done.dados[2]["DADOS"] = Bytes(<<67, 255>>)
    /\ done.response = Ok200

\* C15: when the read of a LOB value raises, its column is null in the
\* record, the record has every column with the other columns projected,
\* the rows after it are processed too, and the request ends with 200.
C15_ReadFailureDegrades ==
    \A r \in Seen :
        (\E i \in 1..Len(r.rows) : \E c \in 1..Len(colunas) :
            r.rows[i][c].result = "raise")
          => /\ Len(r.dados) <= Len(r.rows)
             /\ \A i \in 1..Len(r.dados) :
                  /\ DOMAIN r.dados[i] = {colunas[c] : c \in 1..Len(colunas)}
                  /\ \A c \in 1..Len(colunas) :
                       IF r.rows[i][c].result = "raise"
                       THEN r.dados[i][colunas[c]] = None
                       ELSE r.rows[i][c].kind # "lob"
                              => r.dados[i][colunas[c]] = r.rows[i][c]
             /\ (r.pc \in {"close", "release", "done"}
                   /\ \A j \in 1..Len(r.errs) : r.errs[j] = "read")
                  => Len(r.dados) = Len(r.rows)
             /\ (r.pc = "done" /\ \A j \in 1..Len(r.errs) : r.errs[j] = "read")
                  => r.response = Ok200
             /\ (\A j \in 1..Len(r.errs) : r.errs[j] = "read")
                  => r.exc = NoResponse /\ r.pc # "errclose"

\* C15 witness: the read failed in the first of two rows and the request
\* completed with both records
C15_Witness ==
    /\ done.pc = "done"
    /\ done.rows = <<<<Number(7), Lob("raise", <<>>)>>,
                     <<Number(7), Lob("str", <<8364>>)>>>>
    /\ done.dados[1]["ID"] = Number(7)
    /\ done.dados[1]["DADOS"] = None
    /\ Len(done.dados) = 2
    /\ done.dados[2]["DADOS"] = Str(<<8364>>)
    /\ Has(done.errs, "read")
    /\ done.response = Ok200

\* C16 (as claimed): a second run of the startup hook creates no second
\* pool, and no pool is left open once db_pool has stopped naming it.
C16_SingleInitialization ==
    /\ pool.created <= 1
    /\ pool.orphans = 0

\* the failed driver calls of a request's query, LOB reads left out
QueryErrs(r) == SelectSeq(r.errs, LAMBDA op : op # "read")

\* C17: once a request has a cursor, the handler leaves (its result or
\* error reaches the dependency) only after cursor.close was called, as the
\* handler's last driver call; and when a query call failed, the error the
\* client gets carries that first failure, not a failure of the close in
\* the except clause.
C17_CursorClosedOnExit ==
    \A r \in Seen :
        (Has(r.ops, "cursor") /\ ~Has(r.errs, "cursor")
           /\ (r.pc \in {"release", "done"} \/ r.response # NoResponse))
          => /\ Has(r.ops, "close")
             /\ LET handler == SelectSeq(r.ops, LAMBDA op : op # "release")
                IN  handler[Len(handler)] = "close"
             /\ QueryErrs(r) # <<>>
                  => /\ r.exc = DriverErrorIn(QueryErrs(r)[1])
                     /\ r.response.status_code >= 400
                     /\ SubSeq(r.response.msgs, Len(r.response.msgs) - 1,
                               Len(r.response.msgs))
                          = <<MsgDriver, QueryErrs(r)[1]>>
             /\ QueryErrs(r) = <<>> => r.response = Ok200

\* C17 witness: execute failed, the close of the except clause failed too,
\* and the completed request reports the execute error
C17_Witness ==
    /\ done.pc = "done"
    /\ done.errs = <<"execute", "close">>
    /\ Has(done.response.msgs, "execute")
    /\ ~Has(done.response.msgs, "close")

\* position in ops of the request's release, 0 when it has not released
ReleaseAt(r) ==
    IF Has(r.ops, "release")
    THEN CHOOSE i \in 1..Len(r.ops) : r.ops[i] = "release"
    ELSE 0

\* C18: a request that is still in flight and has not finished its release
\* step has made no release call; a completed request made its release as
\* its very last call, so every cursor, execute, fetchall, read and close of
\* the request precedes it; and a connection handed back to the pool is held
\* by no request in flight, whatever the other requests do.
C18_NoUseAfterRelease ==
    /\ \A r \in InFlight : ~Has(r.ops, "release")
    /\ \A r \in Seen :
         Has(r.ops, "release")
           => /\ r.pc = "done"
              /\ ReleaseAt(r) = Len(r.ops)
              /\ \A i \in 1..Len(r.ops) :
                   r.ops[i] \in {"cursor", "execute", "fetchall",
                                 "read", "close"}
                     => i < ReleaseAt(r)
    /\ \A r \in InFlight : r.connection # NoConnection
                             => r.connection \notin pool.idle

\* C18 witness: a request that read LOB values completed with its release
\* after them while another request is in the middle of its query
C18_Witness ==
    /\ done.pc = "done"
    /\ Has(done.ops, "read")
    /\ Has(done.ops, "close")
    /\ done.ops[Len(done.ops)] = "release"
    /\ \E r \in InFlight : r.pc \in {"execute", "fetchall", "project"}


\* C19 (as claimed): the except clause of get_db_connection turns only a
\* failure of the acquisition into its 500; when the connection was yielded
\* the client gets what the endpoint returned or raised, 403 for a table
\* outside the whitelist, and the connection is released.
C19_WrapperMapsOnlyAcquire ==
    (done.pc = "done" /\ done.connection # NoConnection)
      => /\ ~Has(done.response.msgs, MsgConnect)
         /\ ~Allowed(done.nome_tabela) => done.response.status_code = 403
         /\ Count(done.ops, "release") = 1


====
